---- MODULE Spec2Model ----
(***************************************************************************)
(* A model of the docs agent's retrieval tools (src/agent.ts): the URL     *)
(* scope filter isDocsUrl, the sitemap resolver parseSitemap as called by  *)
(* sitemap_list, search_docs' hit filter, and the page tools page_outline  *)
(* and page_section.                                                       *)
(*                                                                         *)
(* Strings are sequences of tokens.  A token stands for a run of           *)
(* characters that the code never splits: "coder.com", "docs", "x" (any    *)
(* other run of letters), and the separators "." and "/".  The scheme      *)
(* "https://" is a token that occurs at the start of a string only, so a   *)
(* string holds no ':' , '?' or '#' apart from its scheme.                 *)
(***************************************************************************)
EXTENDS Integers, Sequences, FiniteSets, TLC

\* ------------------------------------------------------------------ bounds

\* Longest string handed to isDocsUrl in SpecScope.
MaxUrlLen == 7

\* Most <sitemap> children one sitemap index lists.
MaxChildren == 2

\* Most <sitemap> children all the sitemap indexes of the site list together.
MaxRefs == 3

\* Most elements of a page.
MaxNodes == 4

\* ----------------------------------------------------------------- strings

Scheme == "https://"

RootDomain == "coder.com"

RootPath == "docs"

Alphabet == {RootDomain, ".", "/", RootPath, "x"}

SeqsUpTo(S, n) == UNION {[1..k -> S] : k \in 0..n}

\* Every string of at most n tokens: with or without the leading scheme.
StringsUpTo(n) ==
    SeqsUpTo(Alphabet, n)
        \cup (IF n = 0 THEN {} ELSE {<<Scheme>> \o r : r \in SeqsUpTo(Alphabet, n - 1)})

\* String.prototype.startsWith / endsWith / includes.
StartsWith(s, p) == Len(s) >= Len(p) /\ SubSeq(s, 1, Len(p)) = p

EndsWith(s, p) == Len(s) >= Len(p) /\ SubSeq(s, Len(s) - Len(p) + 1, Len(s)) = p

Includes(s, p) == \E i \in 0..(Len(s) - Len(p)) : SubSeq(s, i + 1, i + Len(p)) = p

Tail2(s, k) == SubSeq(s, k, Len(s))

\* ------------------------------------------------------------- new URL(url)

\* The index of the first token of s, from i on, that is not "/" (Len(s)+1 if none):
\* for a special scheme the parser skips every slash before the host.
RECURSIVE SkipSlashes(_, _)
SkipSlashes(s, i) ==
    IF i > Len(s) \/ s[i] # "/" THEN i ELSE SkipSlashes(s, i + 1)

\* The index of the first "/" of s from i on (Len(s)+1 if none): the end of the host.
RECURSIVE HostEnd(_, _)
HostEnd(s, i) ==
    IF i > Len(s) \/ s[i] = "/" THEN i ELSE HostEnd(s, i + 1)

\* The path's segments: the runs between slashes of a path that is empty or starts
\* with "/".  An empty path is one empty segment.
RECURSIVE SplitPath(_, _, _)
SplitPath(p, i, cur) ==
    IF i > Len(p) THEN <<cur>>
    ELSE IF p[i] = "/" THEN <<cur>> \o SplitPath(p, i + 1, <<>>)
    ELSE SplitPath(p, i + 1, Append(cur, p[i]))

Segments(p) == IF p = <<>> THEN <<<<>>>> ELSE SplitPath(p, 2, <<>>)

IsSingleDot(seg) == seg = <<".">>

IsDoubleDot(seg) == seg = <<".", ".">>

\* The URL parser's path state: ".." drops the last segment kept so far, "." is
\* dropped, and either of them as the last segment leaves an empty last segment.
RECURSIVE RemoveDotSegments(_, _, _)
RemoveDotSegments(segs, i, acc) ==
    IF i > Len(segs) THEN acc
    ELSE LET seg == segs[i]
             last == i = Len(segs)
             popped == IF acc = <<>> THEN acc ELSE SubSeq(acc, 1, Len(acc) - 1)
         IN  IF IsDoubleDot(seg)
             THEN RemoveDotSegments(segs, i + 1, IF last THEN Append(popped, <<>>) ELSE popped)
             ELSE IF IsSingleDot(seg)
             THEN RemoveDotSegments(segs, i + 1, IF last THEN Append(acc, <<>>) ELSE acc)
             ELSE RemoveDotSegments(segs, i + 1, Append(acc, seg))

RECURSIVE JoinPath(_, _)
JoinPath(segs, i) ==
    IF i > Len(segs) THEN <<>> ELSE <<"/">> \o segs[i] \o JoinPath(segs, i + 1)

\* new URL(url) without a base: it throws unless url starts with a scheme and, the
\* scheme being special, names a host; hostname is the run up to the first "/",
\* pathname the normalised rest ("/" when there is none).
NewURL(url) ==
    IF url = <<>> \/ url[1] # Scheme
    THEN [threw |-> TRUE, hostname |-> <<>>, pathname |-> <<>>]
    ELSE LET b == SkipSlashes(url, 2)
             e == HostEnd(url, b)
         IN  IF b > Len(url)
             THEN [threw |-> TRUE, hostname |-> <<>>, pathname |-> <<>>]
             ELSE [threw |-> FALSE,
                   hostname |-> SubSeq(url, b, e - 1),
                   pathname |-> JoinPath(RemoveDotSegments(Segments(Tail2(url, e)), 1, <<>>), 1)]

\* isDocsUrl with the host test written as endsWith("coder.com"): a host that only
\* ends in the letters of the domain passes.
isDocsUrl_AnySuffix(url) ==
    LET u == NewURL(url)
    IN  IF u.threw THEN FALSE
        ELSE EndsWith(u.hostname, <<RootDomain>>)
             /\ (u.pathname = <<"/", RootPath>> \/ StartsWith(u.pathname, <<"/", RootPath, "/">>))

\* isDocsUrl with the path test written as startsWith("/docs"): a run of letters
\* after "docs" passes.
isDocsUrl_NoSlash(url) ==
    LET u == NewURL(url)
    IN  IF u.threw THEN FALSE
        ELSE (u.hostname = <<RootDomain>> \/ EndsWith(u.hostname, <<".", RootDomain>>))
             /\ StartsWith(u.pathname, <<"/", RootPath>>)

\* isDocsUrl: the catch turns new URL's throw into false.
isDocsUrl(url) ==
    LET u == NewURL(url)
    IN  IF u.threw THEN FALSE
        ELSE (u.hostname = <<RootDomain>> \/ EndsWith(u.hostname, <<".", RootDomain>>))
             /\ (u.pathname = <<"/", RootPath>> \/ StartsWith(u.pathname, <<"/", RootPath, "/">>))

\* ------------------------------------------------------- the documents served

\* input.sitemapUrl ?? "https://coder.com/sitemap.xml"
DefaultSitemapUrl == <<Scheme, RootDomain, "/", "sitemap.xml">>

\* The sitemap URLs of the site, in a fixed order.  A sitemap index may list any URL
\* the call has already seen; of the URLs not yet seen it lists the earliest first,
\* which loses no graph: parseSitemap reads a sitemap URL only to compare it with
\* the URLs in `seen`, and an unseen URL is seen as soon as a document lists it.
SitemapUrls ==
    << DefaultSitemapUrl,
       <<Scheme, RootDomain, "/", RootPath, "/", "sitemap.xml">>,
       <<Scheme, RootDomain, "/", "x", "/", "sitemap.xml">>,
       <<Scheme, "x", ".", RootDomain, "/", "sitemap.xml">>,
       <<Scheme, "x", "/", "sitemap.xml">> >>

SitemapUrlSet == {SitemapUrls[i] : i \in 1..Len(SitemapUrls)}

\* Page locations listed by the leaves: three in scope, three not.
PageDocs == <<Scheme, RootDomain, "/", RootPath>>

PageDocsX == <<Scheme, RootDomain, "/", RootPath, "/", "x">>

PageSubX == <<Scheme, "x", ".", RootDomain, "/", RootPath, "/", "x">>

PageBlog == <<Scheme, RootDomain, "/", "x">>

PageDocsx == <<Scheme, RootDomain, "/", RootPath, "x">>

PageNoUrl == <<"x">>

\* The <url> list of each sitemap URL when it is served as a leaf: the lists differ,
\* so the order of the leaves shows in the result; one lists a location twice, and
\* one location is listed by several leaves.
LeafLists ==
    << <<[loc |-> PageDocs], [loc |-> PageDocsX]>>,
       <<[loc |-> PageSubX]>>,
       <<[loc |-> PageBlog], [loc |-> PageDocsX], [loc |-> PageDocsx],
         [loc |-> PageDocsX], [loc |-> PageNoUrl]>>,
       <<[loc |-> PageDocs], [loc |-> PageBlog]>>,
       <<[loc |-> PageSubX], [loc |-> PageDocs]>> >>

LeafOf(url) == LeafLists[CHOOSE i \in 1..Len(SitemapUrls) : SitemapUrls[i] = url]

\* The status of a fetch that is not ok.
FailStatuses == {404}

\* The earliest sitemap URL outside S, if any.
RECURSIVE FirstUnseen(_, _)
FirstUnseen(S, i) ==
    IF i > Len(SitemapUrls) THEN {}
    ELSE IF SitemapUrls[i] \notin S THEN {SitemapUrls[i]}
    ELSE FirstUnseen(S, i + 1)

\* The <sitemap> lists of exactly n children an index may hold when the call has
\* seen the URLs of S.
RECURSIVE ChildLists(_, _)
ChildLists(S, n) ==
    IF n = 0 THEN {<<>>}
    ELSE UNION { {<<[loc |-> x]>> \o r : r \in ChildLists(S \cup {x}, n - 1)}
                 : x \in S \cup FirstUnseen(S, 1) }

\* fast-xml-parser gives a lone child element as a bare object, several as an array.
XmlList(items) ==
    IF Len(items) = 1 THEN [isArray |-> FALSE, one |-> items[1]]
    ELSE [isArray |-> TRUE, arr |-> items]

\* What the server may answer for a sitemap URL: not ok, or ok with an index of at
\* most `room` children, a leaf, or a document that is neither.
Responses(url, S, room) ==
    {[ok |-> FALSE, status |-> st, doc |-> [type |-> "none"]] : st \in FailStatuses}
    \cup {[ok |-> TRUE, status |-> 200, doc |-> [type |-> "none"]]}
    \cup {[ok |-> TRUE, status |-> 200, doc |-> [type |-> "urlset", url |-> XmlList(LeafOf(url))]]}
    \cup {[ok |-> TRUE, status |-> 200, doc |-> [type |-> "sitemapindex", sitemap |-> XmlList(cs)]]
            : cs \in UNION {ChildLists(S, n) : n \in 1..room}}

\* ------------------------------------------------------------ parseSitemap

\* The element of a one-element set.  Only({e(x) : x \in {v}}) is LET x == v IN e(x)
\* with v computed once, however often e uses x.
Only(S) == CHOOSE y \in S : TRUE

\* Array.isArray(x) ? x : [x]
AsArray(x) == IF x.isArray THEN x.arr ELSE <<x.one>>

RECURSIVE Unique(_, _)
\* The entries of es from i on, without those whose loc an earlier entry has.
Unique(es, i) ==
    IF i > Len(es) THEN <<>>
    ELSE (IF \E j \in 1..(i - 1) : es[j].loc = es[i].loc THEN <<>> ELSE <<es[i]>>)
         \o Unique(es, i + 1)

RECURSIVE Concat(_, _)
Concat(nested, i) ==
    IF i > Len(nested) THEN <<>> ELSE nested[i] \o Concat(nested, i + 1)

\* nested.flat() followed by a deduplication by loc.
Flat_Unique(nested, i) == Unique(Concat(nested, i), 1)

RECURSIVE Flat(_, _)
\* nested.flat()
Flat(nested, i) ==
    IF i > Len(nested) THEN <<>> ELSE nested[i] \o Flat(nested, i + 1)

\* seen.has(url), never true: every reference is expanded again.
SeenHas_Never(seen, url) == FALSE

\* seen.has(url)
SeenHas(seen, url) == url \in seen

XmlError(url, status) == [msg |-> "Failed to fetch XML", url |-> url, status |-> status]

\* The seen set as one set that every call uses, whatever it holds already.
FreshSeen_Shared(others) == others

\* seen = new Set<string>(): the default of parseSitemap's parameter, made anew for
\* each call that does not pass one, whatever the sets of the other calls hold.
FreshSeen(others) == {}

\* parseSitemap with seen.add(url) left out: the fetch of a new URL is issued and
\* seen stays as it was.
Invoke_NoAdd(m, url, parent) ==
    IF SeenHas(m.seen, url)
    THEN [m EXCEPT !.calls = Append(@,
            [url |-> url, parent |-> parent, st |-> "fulfilled", wait |-> "none",
             kids |-> <<>>, settled |-> <<>>, value |-> <<>>, reason |-> <<>>])]
    ELSE [seen |-> m.seen,
          calls |-> Append(m.calls,
            [url |-> url, parent |-> parent, st |-> "pending", wait |-> "fetch",
             kids |-> <<>>, settled |-> <<>>, value |-> <<>>, reason |-> <<>>]),
          fetched |-> Append(m.fetched, url)]

\* One invocation parseSitemap(url, seen) up to its first await, in the machine
\* m = [seen, calls, fetched]: a URL already seen returns [] at once, another is
\* added to seen and its fetch is issued.  The invocation is the last of m.calls.
Invoke(m, url, parent) ==
    IF SeenHas(m.seen, url)
    THEN [m EXCEPT !.calls = Append(@,
            [url |-> url, parent |-> parent, st |-> "fulfilled", wait |-> "none",
             kids |-> <<>>, settled |-> <<>>, value |-> <<>>, reason |-> <<>>])]
    ELSE [seen |-> m.seen \cup {url},
          calls |-> Append(m.calls,
            [url |-> url, parent |-> parent, st |-> "pending", wait |-> "fetch",
             kids |-> <<>>, settled |-> <<>>, value |-> <<>>, reason |-> <<>>]),
          fetched |-> Append(m.fetched, url)]

\* items.map((s) => parseSitemap(s.loc, seen)): the invocations in listing order,
\* each run to its first await before the next starts.
RECURSIVE InvokeAll(_, _, _, _)
InvokeAll(m, items, i, parent) ==
    IF i > Len(items) THEN m
    ELSE Only({InvokeAll(m2, items, i + 1, parent) : m2 \in {Invoke(m, items[i].loc, parent)}})

\* Promise.all that hands back the values in the order the children settled.
PromiseAll_SettleOrder(calls, p) ==
    LET kids == calls[p].kids
        bad == {k \in 1..Len(kids) : calls[kids[k]].st = "rejected"}
    IN  IF bad # {}
        THEN [st |-> "rejected", value |-> <<>>,
              reason |-> calls[kids[CHOOSE k \in bad : TRUE]].reason]
        ELSE IF \A k \in 1..Len(kids) : calls[kids[k]].st = "fulfilled"
        THEN [st |-> "fulfilled",
              value |-> Flat([k \in 1..Len(kids) |-> calls[calls[p].settled[k]].value], 1),
              reason |-> <<>>]
        ELSE [st |-> "pending", value |-> <<>>, reason |-> <<>>]

\* Promise.all that waits for every child and drops the rejected ones' results.
PromiseAll_Settled(calls, p) ==
    LET kids == calls[p].kids
    IN  IF \A k \in 1..Len(kids) : calls[kids[k]].st # "pending"
        THEN [st |-> "fulfilled",
              value |-> Flat([k \in 1..Len(kids) |-> calls[kids[k]].value], 1),
              reason |-> <<>>]
        ELSE [st |-> "pending", value |-> <<>>, reason |-> <<>>]

\* await Promise.all(...) followed by nested.flat(), for the index invocation p:
\* rejected with the reason of the child that rejected, fulfilled with the
\* children's values in listing order once all are fulfilled, pending otherwise.
PromiseAll(calls, p) ==
    LET kids == calls[p].kids
        bad == {k \in 1..Len(kids) : calls[kids[k]].st = "rejected"}
    IN  IF bad # {}
        THEN [st |-> "rejected", value |-> <<>>,
              reason |-> calls[kids[CHOOSE k \in bad : TRUE]].reason]
        ELSE IF \A k \in 1..Len(kids) : calls[kids[k]].st = "fulfilled"
        THEN [st |-> "fulfilled",
              value |-> Flat([k \in 1..Len(kids) |-> calls[kids[k]].value], 1),
              reason |-> <<>>]
        ELSE [st |-> "pending", value |-> <<>>, reason |-> <<>>]

\* The promise reactions run after invocation n settled: its parent, when it still
\* awaits its children, settles as Promise.all says, and so on up to the root.
RECURSIVE Settle(_, _), Await(_, _)
Settle(calls, n) ==
    LET p == calls[n].parent
    IN  IF p = 0 \/ calls[p].st # "pending" THEN calls
        ELSE Only({Await(noted, p) : noted \in {[calls EXCEPT ![p].settled = Append(@, n)]}})

\* The index invocation p at await Promise.all(...): it stays pending, or it settles
\* and its own parent is told.
Await(calls, p) ==
    Only({IF all.st = "pending" THEN calls
          ELSE Settle([calls EXCEPT ![p].st = all.st, ![p].wait = "none",
                                    ![p].value = all.value, ![p].reason = all.reason], p)
            : all \in {PromiseAll(calls, p)}})

\* The kids of an index invocation p that returned [] at once are settled before
\* Promise.all is awaited.
RECURSIVE NoteDups(_, _, _)
NoteDups(calls, p, k) ==
    IF k > Len(calls[p].kids) THEN calls
    ELSE Only({NoteDups(noted, p, k + 1)
                 : noted \in {IF calls[calls[p].kids[k]].st = "fulfilled"
                              THEN [calls EXCEPT ![p].settled = Append(@, calls[p].kids[k])]
                              ELSE calls}})

\* The index invocation n reaches await Promise.all(...) over the invocations
\* `kids` it has just made.
Awaiting(calls, n, kids) ==
    Only({Await(c2, n)
            : c2 \in {NoteDups([calls EXCEPT ![n].wait = "all", ![n].kids = kids], n, 1)}})

\* parseSitemap(url, seen) from the fetch of invocation n answering with r to the
\* next await or the return, with the reactions that follow.
Resume(m, n, r) ==
    LET url == m.calls[n].url
    IN  IF ~r.ok
        THEN [m EXCEPT !.calls = Settle([@ EXCEPT ![n].st = "rejected", ![n].wait = "none",
                                                  ![n].reason = <<XmlError(url, r.status)>>], n)]
        ELSE IF r.doc.type = "sitemapindex"
        THEN LET items == AsArray(r.doc.sitemap)
                 first == Len(m.calls) + 1
                 kids == [k \in 1..Len(items) |-> first + k - 1]
             IN  Only({[m2 EXCEPT !.calls = Awaiting(@, n, kids)]
                         : m2 \in {InvokeAll(m, items, 1, n)}})
        ELSE IF r.doc.type = "urlset"
        THEN [m EXCEPT !.calls = Settle([@ EXCEPT ![n].st = "fulfilled", ![n].wait = "none",
                                                  ![n].value = AsArray(r.doc.url)], n)]
        ELSE [m EXCEPT !.calls = Settle([@ EXCEPT ![n].st = "fulfilled", ![n].wait = "none"], n)]

\* ------------------------------------------------------------ sitemap_list

\* patterns.some((p) => loc.includes(p))
SomeIncludes(loc, patterns) == \E k \in 1..Len(patterns) : Includes(loc, patterns[k])

\* entries.slice(0, limit)
Slice0(es, limit) == SubSeq(es, 1, IF limit < Len(es) THEN limit ELSE Len(es))

\* The scope filter of sitemap_list left out.
ScopeFilter_None(es) == es

\* entries.filter((e) => isDocsUrl(e.loc))
ScopeFilter(es) == LET keep(e) == isDocsUrl(e.loc) IN SelectSeq(es, keep)

\* sitemap_list with the cap applied first, before the filters.
SitemapListEntries_CapFirst(flat, in) ==
    LET capped == IF in.limit # <<>> THEN Slice0(flat, in.limit[1]) ELSE flat
        scoped == ScopeFilter(capped)
        inc(e) == SomeIncludes(e.loc, in.include[1])
        included == IF in.include # <<>> /\ Len(in.include[1]) > 0
                    THEN SelectSeq(scoped, inc) ELSE scoped
        exc(e) == ~SomeIncludes(e.loc, in.exclude[1])
    IN  IF in.exclude # <<>> /\ Len(in.exclude[1]) > 0
        THEN SelectSeq(included, exc) ELSE included

\* sitemap_list after parseSitemap returned `flat`: the scope filter, the include
\* and exclude filters when the list is given and not empty, the cap when given.
\* An absent input is <<>>, a given one <<value>>.
SitemapListEntries(flat, in) ==
    LET scoped == ScopeFilter(flat)
        inc(e) == SomeIncludes(e.loc, in.include[1])
        included == IF in.include # <<>> /\ Len(in.include[1]) > 0
                    THEN SelectSeq(scoped, inc) ELSE scoped
        exc(e) == ~SomeIncludes(e.loc, in.exclude[1])
        excluded == IF in.exclude # <<>> /\ Len(in.exclude[1]) > 0
                    THEN SelectSeq(included, exc) ELSE included
    IN  IF in.limit # <<>> THEN Slice0(excluded, in.limit[1]) ELSE excluded

\* -------------------------------------------------------------- search_docs

\* hierarchyTitle(h): the first level of lvl1, lvl2, lvl0, lvl3 .. lvl6 that is set.
HierarchyLevels == <<"lvl1", "lvl2", "lvl0", "lvl3", "lvl4", "lvl5", "lvl6">>

RECURSIVE FirstLevel(_, _)
FirstLevel(h, k) ==
    IF k > Len(HierarchyLevels) THEN <<>>
    ELSE IF h[HierarchyLevels[k]] # <<>> /\ h[HierarchyLevels[k]][1] # ""
    THEN h[HierarchyLevels[k]]
    ELSE FirstLevel(h, k + 1)

hierarchyTitle(h) == IF h = <<>> THEN <<>> ELSE FirstLevel(h[1], 1)

\* rawHits.filter((h) => typeof h.url === "string" && isDocsUrl(h.url))
DocsHits(rawHits) ==
    LET keep(h) == h.url.isString /\ isDocsUrl(h.url.value) IN SelectSeq(rawHits, keep)

\* Math.min(input.hitsPerPage ?? 3, 5)
HitsPerPage(given) ==
    LET n == IF given = <<>> THEN 3 ELSE given[1] IN IF n < 5 THEN n ELSE 5

\* The facet filters sent: the caller's, then "tags:v2" and "version:main" unless a
\* filter of the caller's already is, or holds, that tag.  A filter that is a string
\* is [isString |-> TRUE, value |-> <<the string>>], one that is an array of strings
\* [isString |-> FALSE, value |-> the array].
HasFacet(ffs, tag) ==
    \E k \in 1..Len(ffs) :
        IF ffs[k].isString THEN ffs[k].value[1] = tag
        ELSE \E j \in 1..Len(ffs[k].value) : ffs[k].value[j] = tag

FacetFilters(given) ==
    LET base == IF given = <<>> THEN <<>> ELSE given[1]
        withV2 == IF HasFacet(base, "tags:v2") THEN base
                  ELSE Append(base, [isString |-> TRUE, value |-> <<"tags:v2">>])
    IN  IF HasFacet(withV2, "version:main") THEN withV2
        ELSE Append(withV2, [isString |-> TRUE, value |-> <<"version:main">>])

\* The hits as returned in the given mode (the snippet is left out of the model).
LightHit(h) == [url |-> h.url.value, title |-> hierarchyTitle(h.hierarchy), objectID |-> h.objectID]

FullHit(h) == [url |-> h.url.value, hierarchy |-> h.hierarchy, content |-> h.content,
               type |-> h.type, objectID |-> h.objectID]

MapHits(filtered, mode) ==
    [k \in 1..Len(filtered) |-> IF mode = "light" THEN LightHit(filtered[k]) ELSE FullHit(filtered[k])]

\* The query URL of the Algolia index.
AlgoliaUrl == <<Scheme, "APPID-dsn.algolia.net", "/", "1", "/", "indexes", "/", RootPath, "/", "query">>

NoHierarchy == [l \in {"lvl0", "lvl1", "lvl2", "lvl3", "lvl4", "lvl5", "lvl6"} |-> <<>>]

Hit(url, isString, id) ==
    [url |-> [isString |-> isString, value |-> url],
     hierarchy |-> <<[NoHierarchy EXCEPT !["lvl0"] = <<"Docs">>, !["lvl2"] = <<id>>]>>,
     content |-> <<"text">>, type |-> <<"content">>, objectID |-> id]

\* The data.hits Algolia may answer with; <<>> also stands for a missing data.hits.
HitLists ==
    { <<>>,
      <<Hit(PageDocsX, TRUE, "1")>>,
      <<Hit(PageBlog, TRUE, "1"), Hit(PageDocs, TRUE, "2"), Hit(PageDocsx, TRUE, "3")>>,
      <<Hit(PageSubX, TRUE, "1"), Hit(<<"x">>, FALSE, "2"), Hit(PageNoUrl, TRUE, "3"),
        Hit(<<Scheme, RootDomain, "/", RootPath, "/", ".", ".", "/", "x">>, TRUE, "4")>> }

\* ----------------------------------------------------------- the page tools

\* String.prototype.toLowerCase and trim, on the strings of the pages and inputs.
ToLowerCase(str) ==
    CASE str = "H1" -> "h1" [] str = "H2" -> "h2" [] str = "H3" -> "h3"
      [] str = "P" -> "p" [] str = "PRE" -> "pre"
      [] str \in {"Installation", "INSTALLATION"} -> "installation"
      [] str = "Configuration" -> "configuration"
      [] OTHER -> str

Trim(str) ==
    CASE str = " Installation " -> "Installation"
      [] str = " npm install " -> "npm install"
      [] str = "  " -> ""
      [] OTHER -> str

\* tag.match(/^h[1-6]$/)
IsHeadingTag(tag) == tag \in {"h1", "h2", "h3", "h4", "h5", "h6"}

\* levelOf(tagName): the digit of h1 .. h6 in either case, 6 for any other tag.
levelOf(tagName) ==
    CASE ToLowerCase(tagName) = "h1" -> 1 [] ToLowerCase(tagName) = "h2" -> 2
      [] ToLowerCase(tagName) = "h3" -> 3 [] ToLowerCase(tagName) = "h4" -> 4
      [] ToLowerCase(tagName) = "h5" -> 5 [] OTHER -> 6

\* The elements a page is made of.  A page is the sequence of the children of one
\* parent element, so each element's nextElementSibling is the next of the
\* sequence.  `id` is the element's id attribute, `aid` the id of an <a id> inside
\* it, `size` the length of its serialised markup, `hrefs` the href of its links.
Heading(tagName, id, aid, text) ==
    [tagName |-> tagName, id |-> id, aid |-> aid, text |-> text, size |-> 40, hrefs |-> <<>>]

PageElements ==
    { Heading("H1", <<"config">>, <<>>, "Configuration"),
      Heading("H2", <<"install">>, <<>>, " Installation "),
      Heading("H3", <<>>, <<"install">>, "installation"),
      Heading("H3", <<>>, <<>>, "Configuration"),
      [tagName |-> "P", id |-> <<>>, aid |-> <<>>, text |-> "Some text", size |-> 60,
       hrefs |-> << <<"#", "install">>, <<"/", RootPath, "/", "x">>, <<"/", "x">> >>],
      [tagName |-> "PRE", id |-> <<>>, aid |-> <<>>, text |-> " npm install ", size |-> 3000,
       hrefs |-> <<>>] }

Pages == SeqsUpTo(PageElements, MaxNodes)

\* node.nextElementSibling, 0 for null
NextElementSibling(page, i) == IF i < Len(page) THEN i + 1 ELSE 0

\* root.querySelectorAll("h1, h2, h3, h4, h5, h6"): the headings in document order.
RECURSIVE QueryHeadings(_, _, _)
QueryHeadings(page, i, tags) ==
    IF i > Len(page) THEN <<>>
    ELSE (IF ToLowerCase(page[i].tagName) \in tags THEN <<i>> ELSE <<>>)
         \o QueryHeadings(page, i + 1, tags)

\* h.getAttribute("id") ?? h.querySelector("a[id]")?.getAttribute("id") ?? null
HeadingId(h) == IF h.id # <<>> THEN h.id ELSE h.aid

\* An optional string input that is given and not empty.
Truthy(opt) == opt # <<>> /\ opt[1] # ""

\* The test of the target scan with == for && and ===: a heading with no id
\* matches an anchorId that is not given.
Matches_Loose(h, anchorId, headingText) ==
    \/ HeadingId(h) = anchorId
    \/ Truthy(headingText) /\ ToLowerCase(Trim(h.text)) = ToLowerCase(headingText[1])

\* (anchorId && id === anchorId) ||
\* (headingText && txt.toLowerCase() === headingText.toLowerCase())
Matches(h, anchorId, headingText) ==
    \/ Truthy(anchorId) /\ HeadingId(h) = anchorId
    \/ Truthy(headingText) /\ ToLowerCase(Trim(h.text)) = ToLowerCase(headingText[1])

\* The scan for the target: the index in `headings` of the first heading that
\* matches and its level, or index -1 and level 6.
RECURSIVE FindTarget(_, _, _, _, _)
FindTarget(page, headings, i, anchorId, headingText) ==
    IF i > Len(headings) THEN [targetIndex |-> -1, targetLevel |-> 6]
    ELSE IF Matches(page[headings[i]], anchorId, headingText)
    THEN [targetIndex |-> i, targetLevel |-> levelOf(ToLowerCase(page[headings[i]].tagName))]
    ELSE FindTarget(page, headings, i + 1, anchorId, headingText)

\* node.toString(): the markup of the element at i, as long as its size says.
Snippet(page, i) == [node |-> i, length |-> page[i].size]

RECURSIVE StrLength(_)
\* The length of a string made of snippets.
StrLength(html) == IF html = <<>> THEN 0 ELSE html[1].length + StrLength(Tail(html))

\* maxChars ?? 5000
DefaultMaxChars == 5000

MinMaxChars == 100

MaxLen(maxChars) == IF maxChars = <<>> THEN DefaultMaxChars ELSE maxChars[1]

\* The stop test with < for <=: a heading of the target's own level does not stop.
StopsAt_Strict(tag, targetLevel) == IsHeadingTag(tag) /\ levelOf(tag) < targetLevel

\* if (tag && tag.match(/^h[1-6]$/)) { if (levelOf(tag) <= targetLevel) break; }
StopsAt(tag, targetLevel) == IsHeadingTag(tag) /\ levelOf(tag) <= targetLevel

\* The size test with the sizes the wrong way round: it stops only once the
\* markup kept is already over the limit.
Overflows_After(html, snippet, maxLen) == StrLength(html) > maxLen

\* if (htmlOut.length + snippet.length > maxLen) break;
Overflows(html, snippet, maxLen) == StrLength(html) + snippet.length > maxLen

RECURSIVE Join(_, _)
\* chunks.join(sep)
Join(chunks, sep) ==
    IF chunks = <<>> THEN <<>>
    ELSE IF Len(chunks) = 1 THEN <<chunks[1]>>
    ELSE <<chunks[1], sep>> \o Join(Tail(chunks), sep)

\* new URL(href, base).toString() for an href that starts with "/".
ResolveUrl(href, base) ==
    <<Scheme>> \o NewURL(base).hostname \o JoinPath(RemoveDotSegments(Segments(href), 1, <<>>), 1)

\* The outline's headings: all h1, then all h2, then all h3.
OutlineHeadings(page) ==
    LET of(level, tag) ==
            LET hs == QueryHeadings(page, 1, {tag})
            IN  [k \in 1..Len(hs) |-> [level |-> level, id |-> HeadingId(page[hs[k]]),
                                       text |-> Trim(page[hs[k]].text)]]
    IN  of(1, "h1") \o of(2, "h2") \o of(3, "h3")

RECURSIVE AllHrefs(_, _)
AllHrefs(page, i) == IF i > Len(page) THEN <<>> ELSE page[i].hrefs \o AllHrefs(page, i + 1)

\* a[href^="#"]
OutlineAnchors(page) ==
    LET hash(h) == StartsWith(h, <<"#">>) IN SelectSeq(AllHrefs(page, 1), hash)

\* a[href^="/"] whose resolved URL is a docs URL
OutlineLinks(page, url) ==
    LET internal(h) == StartsWith(h, <<"/">>) /\ isDocsUrl(ResolveUrl(h, url))
    IN  SelectSeq(AllHrefs(page, 1), internal)

ScopeError == [msg |-> "Only coder.com/docs URLs are supported", url |-> <<>>, status |-> 0]

PageError(url, status) == [msg |-> "Failed to fetch page", url |-> url, status |-> status]

\* The scope test of the page tools left out.
PageUrlOk_Any(url) == TRUE

\* The page tools' guard: if (!isDocsUrl(url)) throw ...
PageUrlOk(url) == isDocsUrl(url)

\* ---------------------------------------------------------------- variables

VARIABLES
    tool,         \* the tool whose execute is running, "none" before the call
    pc,           \* "idle", "awaiting" (at an await), "scanning", "returned", "threw"
    input,        \* the call's input object; an absent field is <<>>, a given one <<v>>
    fetched,      \* the URLs passed to fetch by this call, in order
    error,        \* <<>>, or <<the Error the call threw>>
    result,       \* <<>>, or <<the object the call returned>>
    seen,         \* parseSitemap's `seen` set of this sitemap_list call
    calls,        \* the parseSitemap invocations of this call, in the order made
    site,         \* what the server answered for each sitemap URL fetched so far
    siteSize,     \* most <sitemap> children the site's indexes list together
    flat,         \* what the root parseSitemap returned
    body,         \* search_docs: the request body sent to Algolia
    page,         \* page tools: the parsed page
    target,       \* page_section: [targetIndex, targetLevel]
    node,         \* page_section: the loop's `node`, 0 for null
    htmlOut,      \* page_section: the snippets appended to htmlOut
    textChunks,   \* page_section: textChunks
    codeBlocks,   \* page_section: codeBlocks
    resolves,     \* SpecTwo: two parseSitemap calls' pc, seen, calls, fetched, flat, error
    scopeArg,     \* SpecScope: the string handed to isDocsUrl
    scopeRet      \* SpecScope: <<>> before the call, then <<what isDocsUrl returned>>

callVars == <<tool, pc, input, fetched, error, result>>

sitemapVars == <<seen, calls, site, siteSize, flat, resolves>>

pageVars == <<page, target, node, htmlOut, textChunks, codeBlocks>>

scopeVars == <<scopeArg, scopeRet>>

vars == <<tool, pc, input, fetched, error, result, seen, calls, site, siteSize, flat, resolves,
          body, page, target, node, htmlOut, textChunks, codeBlocks, scopeArg, scopeRet>>

\* --------------------------------------------------------------- the tools

NotFetched == [ok |-> FALSE, status |-> 0, doc |-> [type |-> "unfetched"]]

NoTarget == [targetIndex |-> -1, targetLevel |-> 6]

NoCall == [pc |-> "idle", seen |-> {}, calls |-> <<>>, fetched |-> <<>>, flat |-> <<>>,
           error |-> <<>>]

InitTools ==
    /\ tool = "none"
    /\ pc = "idle"
    /\ input = <<>>
    /\ fetched = <<>>
    /\ error = <<>>
    /\ result = <<>>
    /\ seen = {}
    /\ calls = <<>>
    /\ site = [u \in SitemapUrlSet |-> NotFetched]
    /\ flat = <<>>
    /\ resolves = [i \in 1..2 |-> NoCall]
    /\ body = <<>>
    /\ page = <<>>
    /\ target = NoTarget
    /\ node = 0
    /\ htmlOut = <<>>
    /\ textChunks = <<>>
    /\ codeBlocks = <<>>

Init ==
    /\ InitTools
    /\ siteSize = MaxRefs
    /\ scopeArg = <<>>
    /\ scopeRet = <<>>

\* ------------------------------------------------------------ sitemap_list

\* The sitemapUrl a caller may give.
CallerSitemapUrls == {SitemapUrls[2], SitemapUrls[5]}

\* The include, exclude and limit a caller may give.  sitemap_list reads them only
\* after parseSitemap returned, and the model draws them there.
FilterInputs ==
    {[include |-> i, exclude |-> e, limit |-> l]
        : i \in {<<>>, << << <<"/", "x">> >> >>},
          e \in {<<>>, << << <<"x", ".">> >> >>, << << <<"x", ".">>, <<RootPath, "/">> >> >>},
          l \in {<<>>, <<1>>}}

\* sitemap_list.execute up to its await: parseSitemap(sitemapUrl) with a new seen.
SitemapListCall ==
    /\ tool = "none"
    /\ \E given \in {<<>>} \cup {<<u>> : u \in CallerSitemapUrls} :
         LET sitemapUrl == IF given = <<>> THEN DefaultSitemapUrl ELSE given[1]
             m == Invoke([seen |-> FreshSeen(resolves[1].seen \cup resolves[2].seen),
                          calls |-> <<>>, fetched |-> <<>>], sitemapUrl, 0)
         IN  /\ input' = [sitemapUrl |-> given, include |-> <<>>, exclude |-> <<>>,
                          limit |-> <<>>]
             /\ seen' = m.seen
             /\ calls' = m.calls
             /\ fetched' = m.fetched
    /\ tool' = "sitemap_list"
    /\ pc' = "awaiting"
    /\ UNCHANGED <<error, result, site, siteSize, flat, resolves, body, pageVars, scopeVars>>

\* The fetch of invocation n answers: parseSitemap resumes, and when that settles
\* the root invocation, sitemap_list.execute resumes too and returns or throws.
\* A URL fetched before is answered as before.
XmlFetched(n) ==
    /\ tool = "sitemap_list"
    /\ n \in 1..Len(calls)
    /\ calls[n].wait = "fetch"
    /\ LET url == calls[n].url
           used == Len(calls) - 1
           room == IF siteSize - used < MaxChildren THEN siteSize - used ELSE MaxChildren
       IN  \E r \in (IF site[url] # NotFetched THEN {site[url]} ELSE Responses(url, seen, room)) :
             \E m \in {Resume([seen |-> seen, calls |-> calls, fetched |-> fetched], n, r)} :
             LET root == m.calls[1]
             IN  /\ Len(m.calls) <= siteSize + 1
                 /\ site' = [site EXCEPT ![url] = r]
                 /\ seen' = m.seen
                 /\ calls' = m.calls
                 /\ fetched' = m.fetched
                 /\ IF pc = "awaiting" /\ root.st = "fulfilled"
                    THEN \E in \in FilterInputs :
                           \E entries \in {SitemapListEntries(root.value, in)} :
                           /\ input' = [input EXCEPT !.include = in.include,
                                                     !.exclude = in.exclude,
                                                     !.limit = in.limit]
                           /\ flat' = root.value
                           /\ result' = <<[count |-> Len(entries), entries |-> entries]>>
                           /\ pc' = "returned"
                           /\ error' = error
                    ELSE IF pc = "awaiting" /\ root.st = "rejected"
                    THEN /\ pc' = "threw"
                         /\ error' = root.reason
                         /\ UNCHANGED <<input, flat, result>>
                    ELSE UNCHANGED <<pc, error, input, flat, result>>
    /\ UNCHANGED <<tool, siteSize, resolves, body, pageVars, scopeVars>>

\* parseSitemap(url) is called with no seen, as sitemap_list calls it, while the
\* other call is idle, pending or over.
ResolveCall(i) ==
    /\ resolves[i].pc = "idle"
    /\ \E url \in {DefaultSitemapUrl} \cup CallerSitemapUrls :
         LET m == Invoke([seen |-> FreshSeen(resolves[3 - i].seen), calls |-> <<>>,
                          fetched |-> <<>>], url, 0)
         IN  resolves' = [resolves EXCEPT ![i] =
                 [pc |-> IF m.calls[1].st = "fulfilled" THEN "returned" ELSE "awaiting",
                  seen |-> m.seen, calls |-> m.calls, fetched |-> m.fetched,
                  flat |-> <<>>, error |-> <<>>]]
    /\ UNCHANGED <<callVars, seen, calls, site, siteSize, flat, body, pageVars, scopeVars>>

\* The fetch of invocation n of call i answers: parseSitemap resumes, and call i
\* returns or throws when that settles its root.  A URL fetched before, by either
\* call, is answered as before.
ResolveFetched(i, n) ==
    /\ resolves[i].pc # "idle"
    /\ n \in 1..Len(resolves[i].calls)
    /\ resolves[i].calls[n].wait = "fetch"
    /\ LET call == resolves[i]
           url == call.calls[n].url
           used == Len(call.calls) - 1
           room == IF siteSize - used < MaxChildren THEN siteSize - used ELSE MaxChildren
       IN  \E r \in (IF site[url] # NotFetched THEN {site[url]}
                     ELSE Responses(url, call.seen, room)) :
             \E m \in {Resume([seen |-> call.seen, calls |-> call.calls,
                               fetched |-> call.fetched], n, r)} :
             LET root == m.calls[1]
             IN  /\ Len(m.calls) <= siteSize + 1
                 /\ site' = [site EXCEPT ![url] = r]
                 /\ resolves' = [resolves EXCEPT ![i] =
                      IF call.pc = "awaiting" /\ root.st = "fulfilled"
                      THEN [pc |-> "returned", seen |-> m.seen, calls |-> m.calls,
                            fetched |-> m.fetched, flat |-> root.value, error |-> <<>>]
                      ELSE IF call.pc = "awaiting" /\ root.st = "rejected"
                      THEN [pc |-> "threw", seen |-> m.seen, calls |-> m.calls,
                            fetched |-> m.fetched, flat |-> <<>>, error |-> root.reason]
                      ELSE [call EXCEPT !.seen = m.seen, !.calls = m.calls,
                                        !.fetched = m.fetched]]
    /\ UNCHANGED <<callVars, seen, calls, siteSize, flat, body, pageVars, scopeVars>>

\* -------------------------------------------------------------- search_docs

SearchInputs ==
    {[mode |-> m, hitsPerPage |-> h, facetFilters |-> f]
        : m \in {<<>>, <<"light">>, <<"full">>},
          h \in {<<>>, <<10>>},
          f \in {<<>>, << <<[isString |-> TRUE, value |-> <<"tags:v2">>]>> >>,
                 << <<[isString |-> FALSE, value |-> <<"version:main", "x">>]>> >>}}

\* search_docs.execute up to its await: without the Algolia environment it returns
\* {available: false}; with it, it posts the query.
SearchDocsCall ==
    /\ tool = "none"
    /\ tool' = "search_docs"
    /\ \E in \in SearchInputs, configured \in BOOLEAN :
         /\ input' = in
         /\ IF ~configured
            THEN /\ result' = <<[available |-> FALSE, hits |-> <<>>]>>
                 /\ pc' = "returned"
                 /\ UNCHANGED <<fetched, body>>
            ELSE /\ body' = <<[hitsPerPage |-> HitsPerPage(in.hitsPerPage),
                               facetFilters |-> FacetFilters(in.facetFilters)]>>
                 /\ fetched' = <<AlgoliaUrl>>
                 /\ pc' = "awaiting"
                 /\ UNCHANGED result
    /\ UNCHANGED <<error, sitemapVars, pageVars, scopeVars>>

\* Algolia answers: not ok throws, ok returns the hits that are docs URLs.
SearchDocsFetched ==
    /\ tool = "search_docs"
    /\ pc = "awaiting"
    /\ \/ \E st \in FailStatuses :
            /\ error' = <<[msg |-> "Algolia error", url |-> <<>>, status |-> st]>>
            /\ pc' = "threw"
            /\ UNCHANGED result
       \/ \E rawHits \in HitLists :
            LET mode == IF input.mode = <<>> THEN "light" ELSE input.mode[1]
            IN  /\ result' = <<[available |-> TRUE, hits |-> MapHits(DocsHits(rawHits), mode)]>>
                /\ pc' = "returned"
                /\ UNCHANGED error
    /\ UNCHANGED <<tool, input, fetched, body, sitemapVars, pageVars, scopeVars>>

\* ----------------------------------------------------------- the page tools

\* The url a caller may give a page tool: the schema admits URLs only.
PageUrls ==
    { PageDocsX, PageBlog, PageDocsx,
      <<Scheme, RootDomain, "/", RootPath, "/", ".", ".", "/", "x">> }

\* page_outline.execute up to its await: a url out of scope throws, another is fetched.
PageOutlineCall ==
    /\ tool = "none"
    /\ tool' = "page_outline"
    /\ \E url \in PageUrls :
         /\ input' = [url |-> url]
         /\ IF ~PageUrlOk(url)
            THEN /\ error' = <<ScopeError>>
                 /\ pc' = "threw"
                 /\ UNCHANGED fetched
            ELSE /\ fetched' = <<url>>
                 /\ pc' = "awaiting"
                 /\ UNCHANGED error
    /\ UNCHANGED <<result, body, sitemapVars, pageVars, scopeVars>>

\* The page answers: not ok throws, ok returns the outline.
PageOutlineFetched ==
    /\ tool = "page_outline"
    /\ pc = "awaiting"
    /\ \/ \E st \in FailStatuses :
            /\ error' = <<PageError(input.url, st)>>
            /\ pc' = "threw"
            /\ UNCHANGED <<result, page>>
       \/ \E html \in Pages :
            /\ page' = html
            /\ result' = <<[url |-> input.url, headings |-> OutlineHeadings(html),
                            anchors |-> OutlineAnchors(html),
                            internalLinks |-> OutlineLinks(html, input.url)]>>
            /\ pc' = "returned"
            /\ UNCHANGED error
    /\ UNCHANGED <<tool, input, fetched, body, sitemapVars, target, node, htmlOut,
                   textChunks, codeBlocks, scopeVars>>

SectionInputs ==
    {[anchorId |-> a, headingText |-> h, maxChars |-> c]
        : a \in {<<>>, <<"install">>, <<"config">>},
          h \in {<<>>, <<"INSTALLATION">>},
          c \in {<<>>, <<MinMaxChars>>}}

\* page_section.execute up to its await: a url out of scope throws, another is fetched.
PageSectionCall ==
    /\ tool = "none"
    /\ tool' = "page_section"
    /\ \E url \in PageUrls, in \in SectionInputs :
         /\ input' = [url |-> url, anchorId |-> in.anchorId,
                      headingText |-> in.headingText, maxChars |-> in.maxChars]
         /\ IF ~PageUrlOk(url)
            THEN /\ error' = <<ScopeError>>
                 /\ pc' = "threw"
                 /\ UNCHANGED fetched
            ELSE /\ fetched' = <<url>>
                 /\ pc' = "awaiting"
                 /\ UNCHANGED error
    /\ UNCHANGED <<result, body, sitemapVars, pageVars, scopeVars>>

\* The page answers: not ok throws; ok is parsed and scanned for the target, which
\* when missing returns {found: false} and otherwise starts the loop at the
\* element after the target heading.
PageSectionFetched ==
    /\ tool = "page_section"
    /\ pc = "awaiting"
    /\ \/ \E st \in FailStatuses :
            /\ error' = <<PageError(input.url, st)>>
            /\ pc' = "threw"
            /\ UNCHANGED <<result, page, target, node>>
       \/ \E html \in Pages :
            LET headings == QueryHeadings(html, 1, {"h1", "h2", "h3", "h4", "h5", "h6"})
                t == FindTarget(html, headings, 1, input.anchorId, input.headingText)
            IN  /\ page' = html
                /\ target' = t
                /\ UNCHANGED error
                /\ IF t.targetIndex < 0
                   THEN /\ result' = <<[found |-> FALSE,
                                        reason |-> "Section not found by anchorId or headingText."]>>
                        /\ pc' = "returned"
                        /\ UNCHANGED node
                   ELSE /\ node' = NextElementSibling(html, headings[t.targetIndex])
                        /\ pc' = "scanning"
                        /\ UNCHANGED result
    /\ UNCHANGED <<tool, input, fetched, body, sitemapVars, htmlOut, textChunks, codeBlocks,
                   scopeVars>>

\* What page_section returns once the loop is left.
SectionResult ==
    LET headings == QueryHeadings(page, 1, {"h1", "h2", "h3", "h4", "h5", "h6"})
        start == page[headings[target.targetIndex]]
    IN  [found |-> TRUE, url |-> input.url,
         anchorId |-> IF input.anchorId # <<>> THEN input.anchorId ELSE HeadingId(start),
         heading |-> Trim(start.text),
         html |-> htmlOut,
         text |-> Join(textChunks, "\n\n"),
         codeBlocks |-> codeBlocks]

\* One pass of while (node): a break leaves the loop and returns; otherwise the
\* element is appended and node moves to the next sibling.
SectionLoop ==
    /\ tool = "page_section"
    /\ pc = "scanning"
    /\ node # 0
    /\ LET tag == ToLowerCase(page[node].tagName)
           snippet == Snippet(page, node)
           text == Trim(page[node].text)
       IN  IF StopsAt(tag, target.targetLevel)
              \/ Overflows(htmlOut, snippet, MaxLen(input.maxChars))
           THEN /\ result' = <<SectionResult>>
                /\ pc' = "returned"
                /\ UNCHANGED <<node, htmlOut, textChunks, codeBlocks>>
           ELSE /\ htmlOut' = Append(htmlOut, snippet)
                /\ codeBlocks' = IF tag \in {"pre", "code"} THEN Append(codeBlocks, text)
                                 ELSE codeBlocks
                /\ textChunks' = IF text # "" THEN Append(textChunks, text) ELSE textChunks
                /\ node' = NextElementSibling(page, node)
                /\ UNCHANGED <<pc, result>>
    /\ UNCHANGED <<tool, input, fetched, error, body, sitemapVars, page, target, scopeVars>>

\* while (node) with node null: the loop is left and page_section returns.
SectionEnd ==
    /\ tool = "page_section"
    /\ pc = "scanning"
    /\ node = 0
    /\ result' = <<SectionResult>>
    /\ pc' = "returned"
    /\ UNCHANGED <<tool, input, fetched, error, body, sitemapVars, pageVars, scopeVars>>

\* ---------------------------------------------------------- specifications

NextSitemap ==
    \/ SitemapListCall
    \/ \E n \in 1..(siteSize + 1) : XmlFetched(n)

NextSearch ==
    \/ SearchDocsCall
    \/ SearchDocsFetched

NextPage ==
    \/ PageOutlineCall
    \/ PageOutlineFetched
    \/ PageSectionCall
    \/ PageSectionFetched
    \/ SectionLoop
    \/ SectionEnd

Next == NextSitemap \/ NextSearch \/ NextPage

\* One call of one tool, from the call to its return or throw.
Spec == Init /\ [][Next]_vars

\* One sitemap_list call in which every fetch issued is answered.
SpecLive == Init /\ [][NextSitemap]_vars /\ WF_vars(NextSitemap)

\* One sitemap_list call on a site of up to two more <sitemap> children.
InitShared ==
    /\ InitTools
    /\ siteSize = MaxRefs + 2
    /\ scopeArg = <<>>
    /\ scopeRet = <<>>

SpecShared == InitShared /\ [][NextSitemap]_vars

\* Two parseSitemap calls on one site, one after the other or interleaved at
\* their awaits.
InitTwo ==
    /\ InitTools
    /\ siteSize = MaxRefs - 1
    /\ scopeArg = <<>>
    /\ scopeRet = <<>>

NextTwo ==
    \/ \E i \in 1..2 : ResolveCall(i)
    \/ \E i \in 1..2, n \in 1..(siteSize + 1) : ResolveFetched(i, n)

SpecTwo == InitTwo /\ [][NextTwo]_vars

\* isDocsUrl alone, on every string of at most MaxUrlLen tokens.
InitScope ==
    /\ InitTools
    /\ siteSize = MaxRefs
    /\ scopeArg \in StringsUpTo(MaxUrlLen)
    /\ scopeRet = <<>>

CallIsDocsUrl ==
    /\ scopeRet = <<>>
    /\ scopeRet' = <<isDocsUrl(scopeArg)>>
    /\ UNCHANGED <<scopeArg, callVars, sitemapVars, body, pageVars>>

NextScope == CallIsDocsUrl

SpecScope == InitScope /\ [][NextScope]_vars

\* ------------------------------------------------------------- properties

\* The scope as the documentation states it: the string parses as a URL, its host
\* is the root domain or some labels and a dot before it, and its path is the root
\* path or the root path, a slash and anything.
InScope(url) ==
    LET u == NewURL(url)
    IN  /\ ~u.threw
        /\ \/ u.hostname = <<RootDomain>>
           \/ \E k \in 0..Len(u.hostname) :
                u.hostname = SubSeq(u.hostname, 1, k) \o <<".", RootDomain>>
        /\ \/ u.pathname = <<"/", RootPath>>
           \/ \E k \in 0..Len(u.pathname) :
                u.pathname = <<"/", RootPath, "/">> \o SubSeq(u.pathname, Len(u.pathname) - k + 1, Len(u.pathname))

Returned(t) == tool = t /\ pc = "returned"

\* The invocation n is a repeated reference: an earlier invocation has its URL.
Repeated(n) == \E j \in 1..(n - 1) : calls[j].url = calls[n].url

\* The sitemap URLs whose fetch was answered not ok.
FailedUrls == {u \in SitemapUrlSet : site[u] # NotFetched /\ ~site[u].ok}

\* How often the string x is in the sequence of strings s.
Occurrences(s, x) == Cardinality({k \in 1..Len(s) : s[k] = x})

\* The listing-order traversal of the site, one document after the other: a URL
\* visited before gives nothing, an index its children's entries in the order it
\* lists them, a leaf its entries.
RECURSIVE ListingOrder(_, _), ListingOrderAll(_, _, _)
ListingOrder(url, visited) ==
    IF url \in visited THEN [out |-> <<>>, visited |-> visited]
    ELSE IF site[url].doc.type = "sitemapindex"
    THEN ListingOrderAll(AsArray(site[url].doc.sitemap), 1, visited \cup {url})
    ELSE IF site[url].doc.type = "urlset"
    THEN [out |-> AsArray(site[url].doc.url), visited |-> visited \cup {url}]
    ELSE [out |-> <<>>, visited |-> visited \cup {url}]

ListingOrderAll(items, i, visited) ==
    IF i > Len(items) THEN [out |-> <<>>, visited |-> visited]
    ELSE LET a == ListingOrder(items[i].loc, visited)
             b == ListingOrderAll(items, i + 1, a.visited)
         IN  [out |-> a.out \o b.out, visited |-> b.visited]

\* The locations the leaves of the site list.
PageLocs == {PageDocs, PageDocsX, PageSubX, PageBlog, PageDocsx, PageNoUrl}

\* How often the leaves fetched in this call list the location loc, all together.
RECURSIVE ListedBy(_, _)
ListedBy(loc, i) ==
    IF i > Len(SitemapUrls) THEN 0
    ELSE (IF site[SitemapUrls[i]].ok /\ site[SitemapUrls[i]].doc.type = "urlset"
          THEN Cardinality({k \in 1..Len(LeafOf(SitemapUrls[i])) : LeafOf(SitemapUrls[i])[k].loc = loc})
          ELSE 0) + ListedBy(loc, i + 1)

\* C1 as claimed: every URL that sitemap_list (through parseSitemap) or
\* page_section passes to fetch is in scope.
C1_AllFetchesInScope ==
    tool \in {"sitemap_list", "page_section"}
        => \A k \in 1..Len(fetched) : InScope(fetched[k])

\* C1 as amended: every URL that page_section passes to fetch is in scope.
C1_PageSectionFetchesInScope ==
    tool = "page_section" => \A k \in 1..Len(fetched) : InScope(fetched[k])

C1_Witness == tool = "page_section" /\ pc = "scanning" /\ fetched # <<>>

\* C2: every entry sitemap_list returns, and every hit search_docs returns, has a
\* URL in scope.
C2_SurfacedInScope ==
    /\ Returned("sitemap_list")
         => \A k \in 1..Len(result[1].entries) : InScope(result[1].entries[k].loc)
    /\ Returned("search_docs")
         => \A k \in 1..Len(result[1].hits) : InScope(result[1].hits[k].url)

C2_Witness ==
    /\ Returned("sitemap_list")
    /\ \E k \in 1..Len(flat) : ~InScope(flat[k].loc)
    /\ result[1].entries # <<>>
    /\ input.include # <<>>
    /\ input.limit # <<>>

\* C3: every sitemap_list call whose fetches are all answered ends, also on a site
\* whose indexes list themselves or one another, and when it returns, each
\* location is in the flat result as often as the leaves fetched list it.
C3_TerminatesOnCycles ==
    /\ (tool = "sitemap_list") ~> (pc \in {"returned", "threw"})
    /\ [](Returned("sitemap_list")
            => \A loc \in PageLocs :
                 Cardinality({k \in 1..Len(flat) : flat[k].loc = loc}) = ListedBy(loc, 1))

C3_Witness ==
    /\ Returned("sitemap_list")
    /\ flat # <<>>
    /\ \E n \in 1..Len(calls) :
         /\ calls[n].url = calls[1].url
         /\ calls[n].parent > 1

\* C4: on a site where no sitemap URL is referenced twice, sitemap_list's flat
\* result is the listing-order traversal, in whatever order the fetches answered.
C4_ListingOrderOnTrees ==
    (Returned("sitemap_list") /\ \A n \in 1..Len(calls) : ~Repeated(n))
        => flat = ListingOrder(calls[1].url, {}).out

C4_Witness ==
    /\ Returned("sitemap_list")
    /\ Len(calls) = 3
    /\ calls[1].settled = <<3, 2>>
    /\ calls[2].value # <<>>
    /\ calls[3].value # <<>>
    /\ flat = calls[2].value \o calls[3].value

\* C5 as claimed: on every site, sitemap_list's flat result is the listing-order
\* traversal, in whatever order the fetches answered.
C5_ListingOrderAlways ==
    Returned("sitemap_list") => flat = ListingOrder(calls[1].url, {}).out

\* C6: once a fetch of a sitemap_list call was answered not ok, the call has
\* thrown an error that names a failed URL and its status, it returned nothing,
\* and no failed URL was fetched twice.
C6_FailedFetchFailsCall ==
    (tool = "sitemap_list" /\ FailedUrls # {})
        => /\ pc = "threw"
           /\ result = <<>>
           /\ error # <<>>
           /\ error[1].url \in FailedUrls
           /\ error[1].status = site[error[1].url].status
           /\ \A u \in FailedUrls : Occurrences(fetched, u) = 1

C6_Witness ==
    /\ tool = "sitemap_list"
    /\ pc = "threw"
    /\ \E n \in 1..Len(calls) :
         /\ calls[n].parent > 1
         /\ calls[n].st = "rejected"
         /\ error = calls[n].reason
    /\ \E n \in 1..Len(calls) : calls[n].wait = "fetch"

\* The page index of page_section's target heading, and of the first heading
\* after it whose level is at most the target's (Len(page) + 1 if none).
TargetNode == QueryHeadings(page, 1, {"h1", "h2", "h3", "h4", "h5", "h6"})[target.targetIndex]

SectionEndNode ==
    LET ends == {j \in (TargetNode + 1)..Len(page) :
                    /\ page[j].tagName \in {"H1", "H2", "H3"}
                    /\ levelOf(page[j].tagName) <= levelOf(page[TargetNode].tagName)}
    IN  IF ends = {} THEN Len(page) + 1 ELSE CHOOSE j \in ends : \A i \in ends : j <= i

RECURSIVE SizeOfNodes(_, _)
\* The size of the markup of the elements from..to of the page.
SizeOfNodes(from, to) == IF from > to THEN 0 ELSE page[from].size + SizeOfNodes(from + 1, to)

Found == Returned("page_section") /\ result[1].found

\* C7: the section page_section returns holds the elements after the target
\* heading in document order, none at or after the first later heading of the
\* target's level or above, and all before it (headings of a deeper level and
\* what follows them included) when their markup fits the limit.
C7_SectionStopsAtNextHeading ==
    Found =>
        LET html == result[1].html
        IN  /\ \A k \in 1..Len(html) : html[k].node = TargetNode + k
            /\ TargetNode + Len(html) < SectionEndNode
            /\ SizeOfNodes(TargetNode + 1, SectionEndNode - 1) <= MaxLen(input.maxChars)
                 => TargetNode + Len(html) = SectionEndNode - 1

C7_Witness ==
    /\ Found
    /\ page[TargetNode].tagName = "H2"
    /\ SectionEndNode <= Len(page)
    /\ Len(result[1].html) = 2
    /\ page[TargetNode + 1].tagName = "H3"
    /\ page[TargetNode + 2].tagName = "P"

\* C8: in the loop and in what page_section returns, the markup kept is no longer
\* than the limit, and it is the markup of the elements right after the target
\* heading, one after the other with none left out.
C8_MarkupWithinLimit ==
    /\ (tool = "page_section" /\ pc \in {"scanning", "returned"} /\ target.targetIndex > 0)
         => /\ StrLength(htmlOut) <= MaxLen(input.maxChars)
            /\ \A k \in 1..Len(htmlOut) : htmlOut[k].node = TargetNode + k
    /\ Found => result[1].html = htmlOut

C8_Witness ==
    /\ Found
    /\ htmlOut # <<>>
    /\ \E j \in (TargetNode + Len(htmlOut) + 2)..(SectionEndNode - 1) :
         StrLength(htmlOut) + page[j].size <= MaxLen(input.maxChars)

\* C9: isDocsUrl returns a boolean for every string, true exactly for the strings
\* in scope.
C9_IsDocsUrlIsTheScope ==
    scopeRet # <<>> => scopeRet[1] \in BOOLEAN /\ (scopeRet[1] <=> InScope(scopeArg))

C9_Witness ==
    /\ scopeRet = <<TRUE>>
    /\ Len(NewURL(scopeArg).hostname) > 1
    /\ Len(NewURL(scopeArg).pathname) > 2

\* C10: a page tool called with a url out of scope has thrown the scope error
\* and fetched nothing, and the error of a failed fetch is another one, thrown
\* only after a fetch.
C10_OutOfScopeRejectedUnfetched ==
    tool \in {"page_section", "page_outline"} =>
        /\ ~InScope(input.url)
             => pc = "threw" /\ fetched = <<>> /\ error = <<ScopeError>>
        /\ (error # <<>> /\ error[1] # ScopeError)
             => fetched = <<input.url>> /\ error[1].msg # ScopeError.msg

C10_Witness ==
    /\ tool = "page_outline"
    /\ pc = "threw"
    /\ StartsWith(input.url, <<Scheme, RootDomain, "/", RootPath, "/">>)
    /\ fetched = <<>>

\* The positions of the flat sequence that pass the scope, the include list when it
\* is given and not empty, and the exclude list.
Survivors ==
    {k \in 1..Len(flat) :
        /\ InScope(flat[k].loc)
        /\ (input.include # <<>> /\ input.include[1] # <<>>)
             => \E j \in 1..Len(input.include[1]) : Includes(flat[k].loc, input.include[1][j])
        /\ input.exclude # <<>>
             => \A j \in 1..Len(input.exclude[1]) : ~Includes(flat[k].loc, input.exclude[1][j])}

\* The j-th of the surviving positions, in the order of the flat sequence.
Survivor(j) == CHOOSE k \in Survivors : Cardinality({i \in Survivors : i <= k}) = j

\* C11: what sitemap_list returns is the survivors of the scope, include and exclude
\* filters in the order of the flat sequence, cut to the first `limit` of them when
\* a limit is given, and count is their number.
C11_FilterThenCap ==
    Returned("sitemap_list") =>
        LET entries == result[1].entries
            n == Cardinality(Survivors)
        IN  /\ Len(entries) = IF input.limit # <<>> /\ input.limit[1] < n THEN input.limit[1] ELSE n
            /\ \A j \in 1..Len(entries) : entries[j] = flat[Survivor(j)]
            /\ result[1].count = Len(entries)

C11_Witness ==
    /\ Returned("sitemap_list")
    /\ input.include # <<>>
    /\ input.exclude # <<>>
    /\ input.limit # <<>>
    /\ Cardinality(Survivors) > input.limit[1]
    /\ Survivor(1) > 1
    /\ \E k \in 1..Len(flat) :
         /\ InScope(flat[k].loc)
         /\ \E j \in 1..Len(input.include[1]) : Includes(flat[k].loc, input.include[1][j])
         /\ \E j \in 1..Len(input.exclude[1]) : Includes(flat[k].loc, input.exclude[1][j])

\* The element at position i of the page is a heading that the locators of the
\* call name: by its identifier, or by its trimmed text whatever the case.
Located(i) ==
    /\ page[i].tagName \in {"H1", "H2", "H3"}
    /\ \/ /\ input.anchorId # <<>>
          /\ input.anchorId[1] \in {page[i].id[k] : k \in 1..Len(page[i].id)}
                                   \cup {page[i].aid[k] : k \in 1..Len(page[i].aid)}
       \/ /\ input.headingText # <<>>
          /\ ToLowerCase(Trim(page[i].text)) = ToLowerCase(input.headingText[1])

\* C12: once page_section has the page and no heading of it is named by the
\* locators, it has returned {found: false} with a reason, thrown nothing, and
\* kept no markup, text or code block.
C12_NoMatchIsNotFound ==
    (/\ tool = "page_section"
     /\ pc \in {"scanning", "returned"}
     /\ \A i \in 1..Len(page) : ~Located(i))
        => /\ pc = "returned"
           /\ result # <<>>
           /\ ~result[1].found
           /\ result[1].reason # ""
           /\ error = <<>>
           /\ htmlOut = <<>>
           /\ textChunks = <<>>
           /\ codeBlocks = <<>>
           /\ node = 0

C12_Witness ==
    /\ Returned("page_section")
    /\ ~result[1].found
    /\ input.anchorId # <<>>
    /\ input.headingText # <<>>
    /\ Len(page) > 2
    /\ page[1].tagName = "H3"
    /\ page[1].id = <<>>
    /\ page[2].tagName = "PRE"

\* C13: in a sitemap_list call no URL is fetched twice, whatever the order of the
\* answers; every URL whose fetch was issued is in seen at once; and a reference
\* to a URL referenced before, answered or not, made no fetch and returned [].
C13_EachSitemapFetchedOnce ==
    tool = "sitemap_list" =>
        /\ \A u \in SitemapUrlSet : Occurrences(fetched, u) <= 1
        /\ seen = {fetched[k] : k \in 1..Len(fetched)}
        /\ Len(fetched) = Cardinality({n \in 1..Len(calls) : ~Repeated(n)})
        /\ \A n \in 1..Len(calls) :
             Repeated(n) => /\ calls[n].st = "fulfilled"
                            /\ calls[n].wait = "none"
                            /\ calls[n].kids = <<>>
                            /\ calls[n].value = <<>>

C13_Witness ==
    /\ tool = "sitemap_list"
    /\ \E n \in 1..Len(calls), j \in 1..Len(calls) :
         /\ j < n
         /\ calls[j].url = calls[n].url
         /\ calls[j].wait = "fetch"
         /\ calls[j].parent = 1
         /\ calls[n].parent > 1

\* The sitemap URLs that were fetched as leaves and list the location loc.
LeavesListing(loc) ==
    {u \in SitemapUrlSet :
        /\ site[u].ok
        /\ site[u].doc.type = "urlset"
        /\ \E k \in 1..Len(LeafOf(u)) : LeafOf(u)[k].loc = loc}

\* C15: the flat result of a sitemap_list call, before its filters, holds every
\* location once for each time a leaf fetched in the call lists it: locations are
\* not deduplicated, across leaves or within one, and a leaf referenced more than
\* once counts once.
C15_LocationsNotDeduplicated ==
    Returned("sitemap_list") =>
        \A loc \in PageLocs : Occurrences([k \in 1..Len(flat) |-> flat[k].loc], loc) = ListedBy(loc, 1)

C15_Witness ==
    /\ Returned("sitemap_list")
    /\ \E loc \in PageLocs :
         /\ Cardinality(LeavesListing(loc)) = 2
         /\ Occurrences([k \in 1..Len(flat) |-> flat[k].loc], loc) = 3

\* How a call ends: fulfilled with a value or rejected with a reason.
Outcome(st, value, reason) == [st |-> st, value |-> value, reason |-> reason]

\* The ways a parseSitemap call in the machine m, on its own on this site, may
\* end, over every order in which its fetches may answer.
RECURSIVE AloneFrom(_)
AloneFrom(m) ==
    IF m.calls[1].st # "pending"
    THEN {Outcome(m.calls[1].st, m.calls[1].value, m.calls[1].reason)}
    ELSE UNION {AloneFrom(Resume(m, n, site[m.calls[n].url]))
                  : n \in {k \in 1..Len(m.calls) : m.calls[k].wait = "fetch"}}

Alone(url) == AloneFrom(Invoke([seen |-> {}, calls |-> <<>>, fetched |-> <<>>], url, 0))

\* C14: of two parseSitemap calls run one after the other or interleaved, each
\* fetches its root first, has in its seen set the URLs it fetched itself and no
\* other, and ends as it may end on its own on the same site.
C14_SeenIsPerCall ==
    \A i \in 1..2 :
        LET call == resolves[i]
        IN  call.pc # "idle"
              => /\ call.fetched # <<>>
                 /\ call.fetched[1] = call.calls[1].url
                 /\ call.seen = {call.fetched[k] : k \in 1..Len(call.fetched)}
                 /\ call.pc = "returned"
                      => Outcome("fulfilled", call.flat, <<>>) \in Alone(call.calls[1].url)
                 /\ call.pc = "threw"
                      => Outcome("rejected", <<>>, call.error) \in Alone(call.calls[1].url)

C14_Witness ==
    /\ resolves[1].pc = "awaiting"
    /\ resolves[2].pc = "returned"
    /\ resolves[2].calls[1].url \in resolves[1].seen
    /\ resolves[2].calls[1].url # resolves[1].calls[1].url
    /\ resolves[2].flat # <<>>
    /\ \E n \in 1..Len(resolves[1].calls) :
         /\ resolves[1].calls[n].url = resolves[2].calls[1].url
         /\ resolves[1].calls[n].wait = "fetch"

====
